---- MODULE Spec2Model ----
(***************************************************************************)
(* The OpenSSH v1 private-key decoder of rust-osshkeys:                    *)
(* decode_ossh_priv and decrypt_ossh_priv (src/format/ossh_privkey.rs),    *)
(* as a state machine over the bytes of one key file.                      *)
(*                                                                         *)
(* Bytes are integers 0..255 and every buffer is a sequence of bytes.  A   *)
(* uint32 is kept as its four big-endian bytes: two uint32 are equal       *)
(* exactly when their byte tuples are, and a length prefix is compared     *)
(* with the bytes that remain by LenFits.                                  *)
(***************************************************************************)
EXTENDS Integers, Sequences, FiniteSets, TLC

(***************************************************************************)
(* Names, as the bytes of their ASCII text                                 *)
(***************************************************************************)

\* "openssh-key-v1\0", the 15 bytes matched at the head of keydata
AUTH_MAGIC ==
    <<111, 112, 101, 110, 115, 115, 104, 45, 107, 101, 121, 45, 118, 49, 0>>

\* "3des-cbc"
CIPHER_3DES_CBC ==
    <<51, 100, 101, 115, 45, 99, 98, 99>>

\* "aes128-cbc"
CIPHER_AES128_CBC ==
    <<97, 101, 115, 49, 50, 56, 45, 99, 98, 99>>

\* "aes192-cbc"
CIPHER_AES192_CBC ==
    <<97, 101, 115, 49, 57, 50, 45, 99, 98, 99>>

\* "aes256-cbc"
CIPHER_AES256_CBC ==
    <<97, 101, 115, 50, 53, 54, 45, 99, 98, 99>>

\* "rijndael-cbc@lysator.liu.se"
CIPHER_RIJNDAEL_CBC ==
    <<114, 105, 106, 110, 100, 97, 101, 108, 45, 99, 98, 99, 64,
      108, 121, 115, 97, 116, 111, 114, 46, 108, 105, 117, 46, 115, 101>>

\* "aes128-ctr"
CIPHER_AES128_CTR ==
    <<97, 101, 115, 49, 50, 56, 45, 99, 116, 114>>

\* "aes192-ctr"
CIPHER_AES192_CTR ==
    <<97, 101, 115, 49, 57, 50, 45, 99, 116, 114>>

\* "aes256-ctr"
CIPHER_AES256_CTR ==
    <<97, 101, 115, 50, 53, 54, 45, 99, 116, 114>>

\* "none"
NAME_NONE ==
    <<110, 111, 110, 101>>

\* "bcrypt"
KDF_BCRYPT ==
    <<98, 99, 114, 121, 112, 116>>

\* "ssh-rsa"
RSA_NAME ==
    <<115, 115, 104, 45, 114, 115, 97>>

\* "rsa-sha2-256"
RSA_SHA256_NAME ==
    <<114, 115, 97, 45, 115, 104, 97, 50, 45, 50, 53, 54>>

\* "rsa-sha2-512"
RSA_SHA512_NAME ==
    <<114, 115, 97, 45, 115, 104, 97, 50, 45, 53, 49, 50>>

\* "ssh-dss"
DSA_NAME ==
    <<115, 115, 104, 45, 100, 115, 115>>

\* "ecdsa-sha2-nistp256"
NIST_P256_NAME ==
    <<101, 99, 100, 115, 97, 45, 115, 104, 97, 50, 45, 110, 105, 115, 116, 112, 50, 53, 54>>

\* "ecdsa-sha2-nistp384"
NIST_P384_NAME ==
    <<101, 99, 100, 115, 97, 45, 115, 104, 97, 50, 45, 110, 105, 115, 116, 112, 51, 56, 52>>

\* "ecdsa-sha2-nistp521"
NIST_P521_NAME ==
    <<101, 99, 100, 115, 97, 45, 115, 104, 97, 50, 45, 110, 105, 115, 116, 112, 53, 50, 49>>

\* "ssh-ed25519"
ED25519_NAME ==
    <<115, 115, 104, 45, 101, 100, 50, 53, 53, 49, 57>>

\* "nistp256"
CURVE_NISTP256 ==
    <<110, 105, 115, 116, 112, 50, 53, 54>>

\* "nistp384"
CURVE_NISTP384 ==
    <<110, 105, 115, 116, 112, 51, 56, 52>>

\* "nistp521"
CURVE_NISTP521 ==
    <<110, 105, 115, 116, 112, 53, 50, 49>>

\* "12345678"
TEST_FILE_PASS ==
    <<49, 50, 51, 52, 53, 54, 55, 56>>

\* "blowfish-cbc": a cipher name outside the table
OTHER_CIPHER ==
    <<98, 108, 111, 119, 102, 105, 115, 104, 45, 99, 98, 99>>

\* "pbkdf2": a kdf name that is neither "none" nor "bcrypt"
OTHER_KDF ==
    <<112, 98, 107, 100, 102, 50>>

\* "ssh-xmss": a key name outside the supported set
OTHER_KEY_NAME ==
    <<115, 115, 104, 45, 120, 109, 115, 115>>

\* "secp256k1": a curve name EcCurve does not know
OTHER_CURVE ==
    <<115, 101, 99, 112, 50, 53, 54, 107, 49>>

\* "letmein": a passphrase other than the one the key was written with
WRONG_PASS ==
    <<108, 101, 116, 109, 101, 105, 110>>

(***************************************************************************)
(* Error kinds (ErrorKind, src/error.rs)                                   *)
(***************************************************************************)

\* The result of a decode that has not returned yet.
Pending == "Pending"

\* Ok(keypair).
Ok == "Ok"

\* The kind a failed wire read is reported with.
WireError == "InvalidFormat"

(***************************************************************************)
(* The SSH wire reader (crate::sshbuf), on a buffer and a cursor: pos is   *)
(* the number of bytes already consumed.                                   *)
(***************************************************************************)

\* Whether the uint32 length prefix len (four big-endian bytes) is at most
\* `room` bytes; every buffer of the model is shorter than 65536 bytes.
LenFits(len, room) ==
    /\ len[1] = 0
    /\ len[2] = 0
    /\ len[3] * 256 + len[4] <= room

\* The value of a length prefix that fits.
LenValue(len) == len[3] * 256 + len[4]

\* The big-endian uint32 of n, for n < 65536.
Uint32(n) == <<0, 0, n \div 256, n % 256>>

read_uint32(buf, pos) ==
    IF Len(buf) - pos >= 4
    THEN [ok |-> TRUE, val |-> SubSeq(buf, pos + 1, pos + 4), pos |-> pos + 4]
    ELSE [ok |-> FALSE, val |-> <<>>, pos |-> pos]

read_string(buf, pos) ==
    LET len == read_uint32(buf, pos)
    IN  IF len.ok /\ LenFits(len.val, Len(buf) - len.pos)
        THEN [ok  |-> TRUE,
              val |-> SubSeq(buf, len.pos + 1, len.pos + LenValue(len.val)),
              pos |-> len.pos + LenValue(len.val)]
        ELSE [ok |-> FALSE, val |-> <<>>, pos |-> pos]

\* Byte j of b exists and lies in lo..hi.
ByteIn(b, j, lo, hi) == j <= Len(b) /\ b[j] >= lo /\ b[j] <= hi

RECURSIVE Utf8From(_, _)
\* Whether b, from its byte i on, is well-formed UTF-8 (what str::from_utf8
\* accepts: no overlong form, no surrogate, nothing above U+10FFFF).
Utf8From(b, i) ==
    IF i > Len(b) THEN TRUE
    ELSE LET c == b[i]
         IN  IF c < 128 THEN Utf8From(b, i + 1)
             ELSE IF c >= 194 /\ c <= 223
             THEN ByteIn(b, i + 1, 128, 191) /\ Utf8From(b, i + 2)
             ELSE IF c = 224
             THEN /\ ByteIn(b, i + 1, 160, 191) /\ ByteIn(b, i + 2, 128, 191)
                  /\ Utf8From(b, i + 3)
             ELSE IF (c >= 225 /\ c <= 236) \/ c = 238 \/ c = 239
             THEN /\ ByteIn(b, i + 1, 128, 191) /\ ByteIn(b, i + 2, 128, 191)
                  /\ Utf8From(b, i + 3)
             ELSE IF c = 237
             THEN /\ ByteIn(b, i + 1, 128, 159) /\ ByteIn(b, i + 2, 128, 191)
                  /\ Utf8From(b, i + 3)
             ELSE IF c = 240
             THEN /\ ByteIn(b, i + 1, 144, 191) /\ ByteIn(b, i + 2, 128, 191)
                  /\ ByteIn(b, i + 3, 128, 191) /\ Utf8From(b, i + 4)
             ELSE IF c >= 241 /\ c <= 243
             THEN /\ ByteIn(b, i + 1, 128, 191) /\ ByteIn(b, i + 2, 128, 191)
                  /\ ByteIn(b, i + 3, 128, 191) /\ Utf8From(b, i + 4)
             ELSE IF c = 244
             THEN /\ ByteIn(b, i + 1, 128, 143) /\ ByteIn(b, i + 2, 128, 191)
                  /\ ByteIn(b, i + 3, 128, 191) /\ Utf8From(b, i + 4)
             ELSE FALSE

read_utf8(buf, pos) ==
    LET s == read_string(buf, pos)
    IN  IF s.ok /\ Utf8From(s.val, 1) THEN s
        ELSE [ok |-> FALSE, val |-> <<>>, pos |-> pos]

\* An mpint is a string whose body is the magnitude; every body converts.
read_mpint(buf, pos) == read_string(buf, pos)

RECURSIVE ReadFields(_, _, _)
\* n strings (or mpints) read one after the other from pos, stopping at the
\* first that fails: tried counts the reads attempted, that one included.
ReadFields(buf, pos, n) ==
    IF n = 0 THEN [ok |-> TRUE, vals |-> <<>>, pos |-> pos, tried |-> 0]
    ELSE LET r == read_string(buf, pos)
         IN  IF ~r.ok
             THEN [ok |-> FALSE, vals |-> <<>>, pos |-> pos, tried |-> 1]
             ELSE LET rest == ReadFields(buf, r.pos, n - 1)
                  IN  [ok    |-> rest.ok,
                       vals  |-> <<r.val>> \o rest.vals,
                       pos   |-> rest.pos,
                       tried |-> 1 + rest.tried]

(***************************************************************************)
(* The cipher table of decrypt_ossh_priv and what OpenSSL reports for each *)
(* cipher: key_len, iv_len and block_size.  EVP_CIPHER_block_size is 1 for *)
(* the CTR ciphers (a stream mode), 8 for 3DES-CBC and 16 for AES-CBC.     *)
(***************************************************************************)

NoCipher == [some |-> FALSE, alg |-> "none", key_len |-> 0, iv_len |-> 0, block_size |-> 0]

des_ede3_cbc ==
    [some |-> TRUE, alg |-> "des_ede3_cbc", key_len |-> 24, iv_len |-> 8, block_size |-> 8]

aes_128_cbc ==
    [some |-> TRUE, alg |-> "aes_128_cbc", key_len |-> 16, iv_len |-> 16, block_size |-> 16]

aes_192_cbc ==
    [some |-> TRUE, alg |-> "aes_192_cbc", key_len |-> 24, iv_len |-> 16, block_size |-> 16]

aes_256_cbc ==
    [some |-> TRUE, alg |-> "aes_256_cbc", key_len |-> 32, iv_len |-> 16, block_size |-> 16]

aes_128_ctr ==
    [some |-> TRUE, alg |-> "aes_128_ctr", key_len |-> 16, iv_len |-> 16, block_size |-> 1]

aes_192_ctr ==
    [some |-> TRUE, alg |-> "aes_192_ctr", key_len |-> 24, iv_len |-> 16, block_size |-> 1]

aes_256_ctr ==
    [some |-> TRUE, alg |-> "aes_256_ctr", key_len |-> 32, iv_len |-> 16, block_size |-> 1]

\* The names the `match ciphername` knows.
CipherNames ==
    {CIPHER_3DES_CBC, CIPHER_AES128_CBC, CIPHER_AES192_CBC, CIPHER_AES256_CBC,
     CIPHER_RIJNDAEL_CBC, CIPHER_AES128_CTR, CIPHER_AES192_CTR, CIPHER_AES256_CTR,
     NAME_NONE}

\* `match ciphername { ... }` for a name of CipherNames.
CipherOf(name) ==
    CASE name = CIPHER_3DES_CBC -> des_ede3_cbc
      [] name = CIPHER_AES128_CBC -> aes_128_cbc
      [] name = CIPHER_AES192_CBC -> aes_192_cbc
      [] name = CIPHER_AES256_CBC \/ name = CIPHER_RIJNDAEL_CBC -> aes_256_cbc
      [] name = CIPHER_AES128_CTR -> aes_128_ctr
      [] name = CIPHER_AES192_CTR -> aes_192_ctr
      [] name = CIPHER_AES256_CTR -> aes_256_ctr
      [] OTHER -> NoCipher

\* cipher.map_or(8, |c| c.block_size())
BlockSize(c) == IF c.some THEN c.block_size ELSE 8

RECURSIVE SumBytes(_)
SumBytes(b) == IF b = <<>> THEN 0 ELSE (Head(b) + SumBytes(Tail(b))) % 256

\* bcrypt_pbkdf(pass, salt, rounds, output): fails unless the passphrase and
\* the salt are non-empty and rounds >= 1; the output is a function of the
\* three inputs and of the output length (here a byte mix, not Blowfish).
bcrypt_pbkdf(pass, salt, rounds, outlen) ==
    IF pass = <<>> \/ salt = <<>> \/ rounds = Uint32(0) \/ outlen = 0
    THEN [ok |-> FALSE, out |-> <<>>]
    ELSE [ok  |-> TRUE,
          out |-> [i \in 1..outlen |->
                     (7 * SumBytes(pass) + 3 * SumBytes(salt) + SumBytes(rounds) + i) % 256]]

\* The keystream byte the cipher lays over byte i of the data, under key
\* and iv: the ciphers are OpenSSL's, and the model keeps of them that they
\* are length-preserving (padding is disabled) and keyed.
KeyStream(key, iv, i) == (key[1] + iv[1] * i) % 256

\* Crypter::update + finalize in Mode::Decrypt.
DecryptBytes(key, iv, data) ==
    [i \in 1..Len(data) |-> (data[i] + 256 - KeyStream(key, iv, i)) % 256]

\* The inverse, which the writer of a key file applied.
EncryptBytes(key, iv, data) ==
    [i \in 1..Len(data) |-> (data[i] + KeyStream(key, iv, i)) % 256]

(***************************************************************************)
(* Key files.  A key file is described by the record g of what its writer  *)
(* put in it and of how it was damaged afterwards; KeyData(g) is its bytes.*)
(*   magic    "ok", "bad" (first byte altered) or "short" (15 bytes only)  *)
(*   cipher, kdfname   the two names of the header                         *)
(*   blob     the kdf blob: "good", "nosalt", "norounds" or "empty"        *)
(*   nkeys    the key count                                                *)
(*   hcut     the file ends one byte early                                 *)
(*   empty    the encrypted string is empty                                *)
(*   check    "eq" or "neq": the two check words                           *)
(*   keyname, curve    the inner key name and (ECDSA) curve name           *)
(*   cut      how many fields of key material are present                  *)
(*   valid    whether the key constructors accept the key material         *)
(*   comment  [kind, len]: "text" of len bytes, "fit" (the length that     *)
(*            leaves no padding to add) or "bad" (not UTF-8)               *)
(*   extra    padding bytes beyond those that reach a multiple of 16       *)
(*   paderr   "none", "first" or "last": the padding byte altered          *)
(* The file was written with TEST_FILE_PASS; pass is the passphrase the    *)
(* caller of the decoder supplies.                                         *)
(***************************************************************************)

\* Option<&[u8]>
NoPass == [some |-> FALSE, val |-> <<>>]

SomePass(p) == [some |-> TRUE, val |-> p]

\* A byte sequence that is not UTF-8.
NotUtf8 == <<255>>

\* "salt"
FileSalt == <<115, 97, 108, 116>>

\* The round count of the file's kdf blob.
FileRounds == Uint32(16)

\* The public key blob, which the decoder skips.
PublicBlob == <<0, 0, 0, 1, 42>>

\* string: a uint32 length and the bytes.
Str(b) == Uint32(Len(b)) \o b

RsaNames == {RSA_NAME, RSA_SHA256_NAME, RSA_SHA512_NAME}

EcdsaNames == {NIST_P256_NAME, NIST_P384_NAME, NIST_P521_NAME}

KeyNames == RsaNames \cup EcdsaNames \cup {DSA_NAME, ED25519_NAME}

CurveNames == {CURVE_NISTP256, CURVE_NISTP384, CURVE_NISTP521}

\* The number of fields of key material after the key name.
NFields(keyname) ==
    CASE keyname \in RsaNames -> 6
      [] keyname = DSA_NAME -> 5
      [] keyname \in EcdsaNames -> 3
      [] keyname = ED25519_NAME -> 2
      [] OTHER -> 0

\* Field k of the key material: the curve name first for ECDSA, else one
\* byte of magnitude or of key.
FieldBody(g, k) ==
    IF g.keyname \in EcdsaNames /\ k = 1 THEN g.curve ELSE <<16 + k>>

RECURSIVE Material(_, _)
Material(g, k) ==
    IF k = 0 THEN <<>> ELSE Material(g, k - 1) \o Str(FieldBody(g, k))

\* The check word the writer drew, and the second word of the plaintext.
FileCheck == <<18, 52, 86, 120>>

SecondCheck(g) == IF g.check = "eq" THEN FileCheck ELSE <<18, 52, 86, 121>>

\* The inner plaintext up to the comment.
BeforeComment(g) == FileCheck \o SecondCheck(g) \o Str(g.keyname) \o Material(g, g.cut)

CommentOf(g) ==
    CASE g.comment.kind = "bad" -> NotUtf8
      [] g.comment.kind = "fit" ->
           [i \in 1..((16 - ((Len(BeforeComment(g)) + 4) % 16)) % 16) |-> 97 + i]
      [] OTHER -> [i \in 1..g.comment.len |-> 97 + i]

\* The comment follows only complete key material.
BeforePadding(g) ==
    BeforeComment(g) \o
        (IF g.cut = NFields(g.keyname) THEN Str(CommentOf(g)) ELSE <<>>)

PadLen(g) == ((16 - (Len(BeforePadding(g)) % 16)) % 16) + g.extra

\* Padding 1, 2, 3, ... (byte i, counted from 1, is i mod 256), with one
\* byte altered when g.paderr says so.
PaddingOf(g) ==
    [i \in 1..PadLen(g) |->
        IF \/ g.paderr = "first" /\ i = 1
           \/ g.paderr = "last" /\ i = PadLen(g)
        THEN (i + 1) % 256
        ELSE i % 256]

InnerPlaintext(g) == IF g.empty THEN <<>> ELSE BeforePadding(g) \o PaddingOf(g)

\* The key and iv the writer derived.
WriterKeyder(c) ==
    bcrypt_pbkdf(TEST_FILE_PASS, FileSalt, FileRounds, c.key_len + c.iv_len).out

Ciphertext(g) ==
    LET c == CipherOf(g.cipher)
    IN  IF c.some
        THEN EncryptBytes(SubSeq(WriterKeyder(c), 1, c.key_len),
                          SubSeq(WriterKeyder(c), c.key_len + 1, c.key_len + c.iv_len),
                          InnerPlaintext(g))
        ELSE InnerPlaintext(g)

KdfBlob(g) ==
    CASE g.blob = "good" -> Str(FileSalt) \o FileRounds
      [] g.blob = "nosalt" -> Str(<<>>) \o FileRounds
      [] g.blob = "norounds" -> Str(FileSalt) \o Uint32(0)
      [] OTHER -> <<>>

WholeFile(g) ==
    AUTH_MAGIC \o Str(g.cipher) \o Str(g.kdfname) \o Str(KdfBlob(g))
        \o Uint32(g.nkeys) \o Str(PublicBlob) \o Str(Ciphertext(g))

KeyData(g) ==
    LET f == IF g.hcut THEN SubSeq(WholeFile(g), 1, Len(WholeFile(g)) - 1)
             ELSE WholeFile(g)
    IN  CASE g.magic = "bad" -> <<79>> \o Tail(f)
          [] g.magic = "short" -> AUTH_MAGIC
          [] OTHER -> f

(***************************************************************************)
(* The key files and passphrases the decoder is run on                     *)
(***************************************************************************)

\* The longest comment text tried.
MaxComment == 2

\* The extra padding of the long files: more than 255 bytes remain after
\* the comment, so the padding value wraps from 255 to 0.
LongPad == 256

Passes == {NoPass, SomePass(<<>>), SomePass(TEST_FILE_PASS), SomePass(WRONG_PASS)}

\* An unencrypted ssh-ed25519 key, intact, decoded without a passphrase.
BaseGen ==
    [magic |-> "ok", cipher |-> NAME_NONE, kdfname |-> NAME_NONE, blob |-> "empty",
     nkeys |-> 1, hcut |-> FALSE, pass |-> NoPass, empty |-> FALSE, check |-> "eq",
     keyname |-> ED25519_NAME, curve |-> CURVE_NISTP256, cut |-> 2, valid |-> TRUE,
     comment |-> [kind |-> "text", len |-> 1], extra |-> 0, paderr |-> "none"]

\* The envelopes the inner plaintexts are tried under.
BaseEnvs ==
    {[cipher |-> NAME_NONE, kdfname |-> NAME_NONE, blob |-> "empty", pass |-> NoPass],
     [cipher |-> NAME_NONE, kdfname |-> NAME_NONE, blob |-> "empty",
      pass |-> SomePass(WRONG_PASS)],
     [cipher |-> NAME_NONE, kdfname |-> KDF_BCRYPT, blob |-> "good",
      pass |-> SomePass(TEST_FILE_PASS)],
     [cipher |-> CIPHER_AES256_CTR, kdfname |-> KDF_BCRYPT, blob |-> "good",
      pass |-> SomePass(TEST_FILE_PASS)],
     [cipher |-> CIPHER_AES128_CBC, kdfname |-> KDF_BCRYPT, blob |-> "good",
      pass |-> SomePass(TEST_FILE_PASS)],
     [cipher |-> CIPHER_3DES_CBC, kdfname |-> KDF_BCRYPT, blob |-> "good",
      pass |-> SomePass(WRONG_PASS)]}

Under(g, e) ==
    [g EXCEPT !.cipher = e.cipher, !.kdfname = e.kdfname, !.blob = e.blob, !.pass = e.pass]

\* Every cipher name, kdf name, kdf blob, passphrase and ciphertext length
\* (a multiple of 16, 1 or 8 more, and none at all).
EnvelopeFiles ==
    {[BaseGen EXCEPT !.cipher = c, !.kdfname = k, !.blob = b, !.pass = p,
                     !.extra = x, !.empty = z] :
        c \in CipherNames \cup {OTHER_CIPHER},
        k \in {NAME_NONE, KDF_BCRYPT, OTHER_KDF},
        b \in {"good", "nosalt", "norounds", "empty"},
        p \in Passes,
        x \in {0, 1, 8},
        z \in BOOLEAN}

\* Damaged outer framing.
HeaderFiles ==
    {Under(h, e) : h \in {[BaseGen EXCEPT !.magic = "bad"], [BaseGen EXCEPT !.magic = "short"],
                       [BaseGen EXCEPT !.nkeys = 2], [BaseGen EXCEPT !.hcut = TRUE]},
                e \in BaseEnvs}

\* The key names and curve names tried.
KeyCases ==
    {[keyname |-> k, curve |-> CURVE_NISTP256] :
        k \in RsaNames \cup {DSA_NAME, ED25519_NAME, OTHER_KEY_NAME, NotUtf8}}
    \cup
    {[keyname |-> k, curve |-> c] :
        k \in EcdsaNames, c \in CurveNames \cup {OTHER_CURVE, NotUtf8}}

\* Every key case, with each prefix of its key material, accepted or not by
\* the key constructor, and both check words.
KeyFiles ==
    {Under([BaseGen EXCEPT !.keyname = kc.keyname, !.curve = kc.curve, !.cut = n,
                           !.valid = v, !.check = ck], e) :
        kc \in KeyCases, n \in 0..6, v \in BOOLEAN, ck \in {"eq", "neq"},
        e \in BaseEnvs}

\* Comments and paddings after each kind of key.
TailFiles ==
    {Under([BaseGen EXCEPT !.keyname = k, !.cut = NFields(k), !.comment = cm,
                        !.extra = x, !.paderr = pe], e) :
        k \in {RSA_NAME, DSA_NAME, NIST_P256_NAME, ED25519_NAME},
        cm \in {[kind |-> "text", len |-> n] : n \in 0..MaxComment}
               \cup {[kind |-> "fit", len |-> 0], [kind |-> "bad", len |-> 0]},
        x \in {0, 16, LongPad},
        pe \in {"none", "first", "last"},
        e \in BaseEnvs}

Files ==
    {g \in EnvelopeFiles : g.empty => g.extra = 0} \cup HeaderFiles
        \cup {g \in KeyFiles : g.cut <= NFields(g.keyname)} \cup TailFiles

(***************************************************************************)
(* The state of one call decode_ossh_priv(keydata, passphrase)             *)
(***************************************************************************)

VARIABLES
    gen,          \* the description of the key file (not read by the decoder)
    keydata,      \* the bytes of the key file
    passphrase,   \* Option<&[u8]>
    ossl_accepts, \* whether the key constructors accept the key material
    pc,           \* where the call stands
    result,       \* Pending, Ok or the ErrorKind returned
    ciphername,   \* the fields of the outer header
    kdfname,
    kdf,
    encrypted,
    cipher,       \* Option<Cipher>
    keyder,       \* the derived key and iv
    decrypted,    \* the inner plaintext
    spos,         \* the position of secret_reader
    keyname,
    keypair,
    reads,        \* the reads made of the inner plaintext: <<field, mode>>
    calls,        \* the kdf and cipher operations attempted
    arms,         \* the defensive arms entered
    bufs,         \* what became of each buffer of secret material
    exit          \* the step that returned, "none" before

vars ==
    <<gen, keydata, passphrase, ossl_accepts, pc, result, ciphername, kdfname, kdf,
      encrypted, cipher, keyder, decrypted, spos, keyname, keypair, reads, calls,
      arms, bufs, exit>>

\* The arguments and the description of the file never change.
input == <<gen, keydata, passphrase, ossl_accepts>>

header == <<ciphername, kdfname, kdf, encrypted>>

\* The buffers whose fate is followed: the inner plaintext, the derived
\* key and iv, the RSA iqmp and the ECDSA private scalar.  A buffer is
\*   "unalloc"    not yet holding secret material
\*   "plain"      live in a type that does not wipe on drop (Vec, BigNum)
\*   "zeroizing"  live in a Zeroizing wrapper
\*   "cleared"    zeroed by an explicit clear(), not yet dropped
\*   "wiped"      dropped after its bytes were zeroed
\*   "leaked"     dropped with the secret bytes still in it
Buffers == {"decrypted", "keyder", "iqmp", "privkey"}

\* Every local is dropped when the function returns.
Release(b) ==
    [x \in Buffers |->
        CASE b[x] = "plain" -> "leaked"
          [] b[x] \in {"zeroizing", "cleared"} -> "wiped"
          [] OTHER -> b[x]]

NoKey == [type |-> "none", variant |-> "none", comment |-> <<>>]

Init ==
    /\ gen \in Files
    /\ ossl_accepts = gen.valid
    /\ keydata = KeyData(gen)
    /\ passphrase = gen.pass
    /\ pc = "start"
    /\ result = Pending
    /\ ciphername = <<>>
    /\ kdfname = <<>>
    /\ kdf = <<>>
    /\ encrypted = <<>>
    /\ cipher = NoCipher
    /\ keyder = <<>>
    /\ decrypted = <<>>
    /\ spos = 0
    /\ keyname = <<>>
    /\ keypair = NoKey
    /\ reads = <<>>
    /\ calls = <<>>
    /\ arms = {}
    /\ bufs = [x \in Buffers |-> "unalloc"]
    /\ exit = "none"

\* return Err(kind), or Ok, with the buffers as b at that point.
Return(kind, b) ==
    /\ result' = kind
    /\ pc' = "done"
    /\ exit' = pc
    /\ bufs' = Release(b)

\* The call goes on to the step `next`.
Goto(next) ==
    /\ pc' = next
    /\ result' = result
    /\ exit' = exit

(***************************************************************************)
(* decode_ossh_priv, up to the call of decrypt_ossh_priv                   *)
(***************************************************************************)

\* keydata.len() >= 16 && &keydata[0..15] == b"openssh-key-v1\0"
HasMagic(kd) == Len(kd) >= 16 /\ SubSeq(kd, 1, 15) = AUTH_MAGIC

CheckMagic ==
    /\ pc = "start"
    /\ IF HasMagic(keydata)
       THEN Goto("header") /\ bufs' = bufs
       ELSE Return("InvalidKeyFormat", bufs)
    /\ UNCHANGED <<input, header, cipher, keyder, decrypted, spos, keyname, keypair,
                   reads, calls, arms>>

\* The six reads of the outer header and the test of nkeys, in order: err
\* is the kind of the first failure, "" when there is none.
ParseHeader(kd) ==
    LET c == read_utf8(kd, 15)
        k == read_utf8(kd, c.pos)
        b == read_string(kd, k.pos)
        n == read_uint32(kd, b.pos)
        p == read_string(kd, n.pos)
        e == read_string(kd, p.pos)
    IN  [err |-> IF ~c.ok \/ ~k.ok \/ ~b.ok \/ ~n.ok THEN WireError
                 ELSE IF n.val # Uint32(1) THEN "InvalidKeyFormat"
                 ELSE IF ~p.ok \/ ~e.ok THEN WireError
                 ELSE "",
         ciphername |-> c.val, kdfname |-> k.val, kdf |-> b.val, encrypted |-> e.val]

ReadHeader ==
    /\ pc = "header"
    /\ LET h == ParseHeader(keydata)
       IN  IF h.err # ""
           THEN Return(h.err, bufs) /\ UNCHANGED header
           ELSE /\ Goto("cipher")
                /\ bufs' = bufs
                /\ ciphername' = h.ciphername
                /\ kdfname' = h.kdfname
                /\ kdf' = h.kdf
                /\ encrypted' = h.encrypted
    /\ UNCHANGED <<input, cipher, keyder, decrypted, spos, keyname, keypair, reads,
                   calls, arms>>

(***************************************************************************)
(* decrypt_ossh_priv(&encrypted, passphrase, &ciphername, &kdfname, &kdf)  *)
(***************************************************************************)

\* let cipher = match ciphername { ... }
SelectCipher ==
    /\ pc = "cipher"
    /\ IF ciphername \in CipherNames
       THEN Goto("passphrase") /\ bufs' = bufs /\ cipher' = CipherOf(ciphername)
       ELSE Return("UnsupportCipher", bufs) /\ cipher' = cipher
    /\ UNCHANGED <<input, header, keyder, decrypted, spos, keyname, keypair, reads,
                   calls, arms>>

\* A passphrase test that forgets the empty passphrase.
PassphraseMissing_NoneOnly(pass) == ~pass.some

\* !passphrase.map_or(false, |pass| !pass.is_empty())
PassphraseMissing(pass) == ~(pass.some /\ pass.val # <<>>)

\* Check if empty passphrase but encrypted
CheckPassphrase ==
    /\ pc = "passphrase"
    /\ IF PassphraseMissing(passphrase) /\ cipher.some
       THEN Return("IncorrectPass", bufs)
       ELSE Goto("kdf") /\ bufs' = bufs
    /\ UNCHANGED <<input, header, cipher, keyder, decrypted, spos, keyname, keypair,
                   reads, calls, arms>>

\* A decoder without the check of the kdf name.
KdfUnsupported_Never(name) == FALSE

\* kdfname != "none" && kdfname != "bcrypt"
KdfUnsupported(name) == name # NAME_NONE /\ name # KDF_BCRYPT

\* A check of the kdf that forgets to ask whether there is a cipher.
KdfMissing_AnyCipher(name, c) == name = NAME_NONE

\* kdfname == "none" && cipher.is_some()
KdfMissing(name, c) == name = NAME_NONE /\ c.some

\* Check kdf type; check if no kdf providing but encrypted
CheckKdf ==
    /\ pc = "kdf"
    /\ IF KdfUnsupported(kdfname) THEN Return("UnsupportCipher", bufs)
       ELSE IF KdfMissing(kdfname, cipher) THEN Return("InvalidKeyFormat", bufs)
       ELSE Goto("length") /\ bufs' = bufs
    /\ UNCHANGED <<input, header, cipher, keyder, decrypted, spos, keyname, keypair,
                   reads, calls, arms>>

\* privkey_data.len() < blocksize || privkey_data.len() % blocksize != 0
BadLength(len, blocksize) == len < blocksize \/ len % blocksize # 0

\* A decoder that derives a key whenever the kdf is bcrypt.
AfterChecks_ByKdf(c) == IF c.some \/ kdfname = KDF_BCRYPT THEN "derive" ELSE "copy"

\* The branch of `if let Some(cipher) = cipher` taken after the checks.
AfterChecks(c) == IF c.some THEN "derive" ELSE "copy"

CheckLength ==
    /\ pc = "length"
    /\ IF BadLength(Len(encrypted), BlockSize(cipher))
       THEN Return("InvalidKeyFormat", bufs)
       ELSE Goto(AfterChecks(cipher)) /\ bufs' = bufs
    /\ UNCHANGED <<input, header, cipher, keyder, decrypted, spos, keyname, keypair,
                   reads, calls, arms>>

\* let keyder = match kdfname { "bcrypt" => ..., _ => ... }, with a cipher:
\* the kdf blob is read as a salt and a round count and bcrypt_pbkdf fills
\* key_len + iv_len bytes.
DeriveKey ==
    /\ pc = "derive"
    /\ LET salt  == read_string(kdf, 0)
           round == read_uint32(kdf, salt.pos)
           out   == bcrypt_pbkdf(passphrase.val, salt.val, round.val,
                                 cipher.key_len + cipher.iv_len)
       IN  IF kdfname = KDF_BCRYPT
           THEN IF passphrase.some
                THEN /\ arms' = arms
                     /\ calls' = calls \o <<"kdf_blob">> \o
                            (IF salt.ok /\ round.ok THEN <<"bcrypt_pbkdf">> ELSE <<>>)
                     /\ IF ~salt.ok \/ ~round.ok
                        THEN Return(WireError, bufs) /\ keyder' = keyder
                        ELSE IF ~out.ok
                        THEN /\ Return("InvalidArgument", [bufs EXCEPT !.keyder = "zeroizing"])
                             /\ keyder' = keyder
                        ELSE /\ Goto("decrypt")
                             /\ bufs' = [bufs EXCEPT !.keyder = "zeroizing"]
                             /\ keyder' = out.out
                ELSE \* Should have already checked passphrase
                     /\ arms' = arms \cup {"no_passphrase"}
                     /\ Return("Unknown", bufs)
                     /\ UNCHANGED <<calls, keyder>>
           ELSE /\ arms' = arms \cup {"other_kdf"}
                /\ Return("UnsupportCipher", bufs)
                /\ UNCHANGED <<calls, keyder>>
    /\ UNCHANGED <<input, header, cipher, decrypted, spos, keyname, keypair, reads>>

\* What the cipher library may answer: every call succeeds, or
\* Crypter::new, update or finalize returns an ErrorStack.
CrypterOutcomes == {"ok", "new", "update", "finalize"}

\* Splitting key & iv; Crypter::new, pad(false), update, finalize, truncate.
\* `decrypted` is a plain Vec inside decrypt_ossh_priv; the caller wraps the
\* returned Vec in Zeroizing.  keyder is dropped when the function returns.
DecryptData ==
    /\ pc = "decrypt"
    /\ \E outcome \in CrypterOutcomes :
         LET key == SubSeq(keyder, 1, cipher.key_len)
             iv  == SubSeq(keyder, cipher.key_len + 1, Len(keyder))
         IN  /\ calls' = calls \o
                    CASE outcome = "new" -> <<"Crypter::new">>
                      [] outcome = "update" -> <<"Crypter::new", "update">>
                      [] OTHER -> <<"Crypter::new", "update", "finalize">>
             /\ IF outcome = "ok"
                THEN /\ Goto("checksum")
                     /\ decrypted' = DecryptBytes(key, iv, encrypted)
                     /\ bufs' = [bufs EXCEPT !.keyder = "wiped", !.decrypted = "zeroizing"]
                ELSE /\ Return("OpenSslError",
                               IF outcome = "finalize"
                               THEN [bufs EXCEPT !.decrypted = "plain"]
                               ELSE bufs)
                     /\ decrypted' = decrypted
    /\ UNCHANGED <<input, header, cipher, keyder, spos, keyname, keypair, reads, arms>>

\* Ok(privkey_data.to_vec()): no cipher, the data is the plaintext.
CopyPlain ==
    /\ pc = "copy"
    /\ Goto("checksum")
    /\ decrypted' = encrypted
    /\ bufs' = [bufs EXCEPT !.decrypted = "zeroizing"]
    /\ UNCHANGED <<input, header, cipher, keyder, spos, keyname, keypair, reads,
                   calls, arms>>

(***************************************************************************)
(* decode_ossh_priv, on the inner plaintext (secret_reader)                *)
(***************************************************************************)

\* A decoder that reads the key name with the plain read_utf8.
ReadMode_KeyNamePlain(field) ==
    IF field \in {"comment", "keyname"} THEN "normal" ELSE "zeroize"

\* The mode of the read that fetches each field of the inner plaintext:
\* read_*_zeroize for all of them but the comment, which read_utf8 fetches.
ReadMode(field) == IF field = "comment" THEN "normal" ELSE "zeroize"

\* The log entries of the reads of `fields`, in order.
Reads(fields) == [i \in 1..Len(fields) |-> <<fields[i], ReadMode(fields[i])>>]

\* A comparison of the high bytes of the check words only.
ChecksumMismatch_HighByte(c0, c1) == c0[1] # c1[1]

\* *checksum0 != *checksum1
ChecksumMismatch(c0, c1) == c0 # c1

Checksum ==
    /\ pc = "checksum"
    /\ LET c0 == read_uint32(decrypted, 0)
           c1 == read_uint32(decrypted, c0.pos)
       IN  /\ reads' = reads \o
                  Reads(IF c0.ok THEN <<"checksum0", "checksum1">> ELSE <<"checksum0">>)
           /\ IF ~c0.ok \/ ~c1.ok THEN Return(WireError, bufs) /\ spos' = spos
              ELSE IF ChecksumMismatch(c0.val, c1.val)
              THEN Return("IncorrectPass", bufs) /\ spos' = spos
              ELSE Goto("keyname") /\ bufs' = bufs /\ spos' = c1.pos
    /\ UNCHANGED <<input, header, cipher, keyder, decrypted, keyname, keypair, calls,
                   arms>>

\* The arm of `match keyname.as_str()` for a supported key name.
KeyArm(name) ==
    CASE name \in RsaNames -> "rsa"
      [] name = DSA_NAME -> "dsa"
      [] name \in EcdsaNames -> "ecdsa"
      [] OTHER -> "ed25519"

ReadKeyName ==
    /\ pc = "keyname"
    /\ LET k == read_utf8(decrypted, spos)
       IN  /\ reads' = reads \o Reads(<<"keyname">>)
           /\ IF ~k.ok THEN Return(WireError, bufs) /\ UNCHANGED <<keyname, spos>>
              ELSE IF k.val \notin KeyNames
              THEN Return("UnsupportType", bufs) /\ UNCHANGED <<keyname, spos>>
              ELSE /\ Goto(KeyArm(k.val))
                   /\ bufs' = bufs
                   /\ keyname' = k.val
                   /\ spos' = k.pos
    /\ UNCHANGED <<input, header, cipher, keyder, decrypted, keypair, calls, arms>>

\* The inner match of the RSA arm.
RsaSignature(name) ==
    CASE name = RSA_NAME -> "SHA1"
      [] name = RSA_SHA256_NAME -> "SHA2_256"
      [] name = RSA_SHA512_NAME -> "SHA2_512"
      [] OTHER -> "unreachable"

\* RSA_NAME | RSA_SHA256_NAME | RSA_SHA512_NAME => { ... }: n, e, d, iqmp, p
\* and q are BigNum, which do not wipe on drop; _iqmp is cleared by hand
\* once the key is built and dropped at the end of the arm.
DecodeRsa ==
    /\ pc = "rsa"
    /\ LET names == <<"n", "e", "d", "iqmp", "p", "q">>
           f     == ReadFields(decrypted, spos, 6)
           held  == IF Len(f.vals) >= 4 THEN [bufs EXCEPT !.iqmp = "plain"] ELSE bufs
       IN  /\ reads' = reads \o Reads(SubSeq(names, 1, f.tried))
           /\ IF ~f.ok THEN Return(WireError, held) /\ UNCHANGED <<keypair, spos, arms>>
              ELSE IF ~ossl_accepts
              THEN Return("OpenSslError", held) /\ UNCHANGED <<keypair, spos, arms>>
              ELSE IF RsaSignature(keyname) = "unreachable"
              THEN /\ arms' = arms \cup {"unreachable"}
                   /\ Return("panic", [held EXCEPT !.iqmp = "cleared"])
                   /\ UNCHANGED <<keypair, spos>>
              ELSE /\ Goto("comment")
                   /\ bufs' = [held EXCEPT !.iqmp = "wiped"]
                   /\ keypair' = [type |-> "RSA", variant |-> RsaSignature(keyname),
                                  comment |-> <<>>]
                   /\ spos' = f.pos
                   /\ arms' = arms
    /\ UNCHANGED <<input, header, cipher, keyder, decrypted, keyname, calls>>

\* DSA_NAME => { ... }: p, q, g, pubkey, privkey.
DecodeDsa ==
    /\ pc = "dsa"
    /\ LET names == <<"p", "q", "g", "pubkey", "privkey">>
           f     == ReadFields(decrypted, spos, 5)
       IN  /\ reads' = reads \o Reads(SubSeq(names, 1, f.tried))
           /\ IF ~f.ok THEN Return(WireError, bufs) /\ UNCHANGED <<keypair, spos>>
              ELSE IF ~ossl_accepts
              THEN Return("OpenSslError", bufs) /\ UNCHANGED <<keypair, spos>>
              ELSE /\ Goto("comment")
                   /\ bufs' = bufs
                   /\ keypair' = [type |-> "DSA", variant |-> "none", comment |-> <<>>]
                   /\ spos' = f.pos
    /\ UNCHANGED <<input, header, cipher, keyder, decrypted, keyname, calls, arms>>

\* EcCurve::from_name: the curve a key name implies.
CurveOfKeyName(name) ==
    CASE name = NIST_P256_NAME -> "Nistp256"
      [] name = NIST_P384_NAME -> "Nistp384"
      [] OTHER -> "Nistp521"

\* EcCurve::from_str, for a name of CurveNames.
CurveOfName(name) ==
    CASE name = CURVE_NISTP256 -> "Nistp256"
      [] name = CURVE_NISTP384 -> "Nistp384"
      [] OTHER -> "Nistp521"

\* A decoder that never compares the two curves.
CurveMismatch_Never(curve, curvehint) == FALSE

\* curve != curvehint
CurveMismatch(curve, curvehint) == curve # curvehint

\* NIST_P256_NAME | NIST_P384_NAME | NIST_P521_NAME => { ... }: privkey is
\* a BigNum, cleared by hand after EcDsaKeyPair::from_bytes has returned Ok.
DecodeEcdsa ==
    /\ pc = "ecdsa"
    /\ LET cn    == read_utf8(decrypted, spos)
           pub   == read_string(decrypted, cn.pos)
           priv  == read_mpint(decrypted, pub.pos)
           known == cn.ok /\ cn.val \in CurveNames
           match == known /\ ~CurveMismatch(CurveOfName(cn.val), CurveOfKeyName(keyname))
           held  == IF match /\ pub.ok /\ priv.ok
                    THEN [bufs EXCEPT !.privkey = "plain"] ELSE bufs
       IN  /\ reads' = reads \o Reads(
                  IF ~match THEN <<"curvename">>
                  ELSE IF ~pub.ok THEN <<"curvename", "pubkey">>
                  ELSE <<"curvename", "pubkey", "privkey">>)
           /\ IF ~cn.ok THEN Return(WireError, held) /\ UNCHANGED <<keypair, spos>>
              ELSE IF ~known
              THEN Return("UnsupportCurve", held) /\ UNCHANGED <<keypair, spos>>
              ELSE IF ~match
              THEN Return("TypeNotMatch", held) /\ UNCHANGED <<keypair, spos>>
              ELSE IF ~pub.ok \/ ~priv.ok
              THEN Return(WireError, held) /\ UNCHANGED <<keypair, spos>>
              ELSE IF ~ossl_accepts
              THEN Return("OpenSslError", held) /\ UNCHANGED <<keypair, spos>>
              ELSE /\ Goto("comment")
                   /\ bufs' = [held EXCEPT !.privkey = "wiped"]
                   /\ keypair' = [type |-> "ECDSA", variant |-> CurveOfName(cn.val),
                                  comment |-> <<>>]
                   /\ spos' = priv.pos
    /\ UNCHANGED <<input, header, cipher, keyder, decrypted, keyname, calls, arms>>

\* ED25519_NAME => { ... }: pk and sk, both in Zeroizing.
DecodeEd25519 ==
    /\ pc = "ed25519"
    /\ LET names == <<"pk", "sk">>
           f     == ReadFields(decrypted, spos, 2)
       IN  /\ reads' = reads \o Reads(SubSeq(names, 1, f.tried))
           /\ IF ~f.ok THEN Return(WireError, bufs) /\ UNCHANGED <<keypair, spos>>
              ELSE IF ~ossl_accepts
              THEN Return("Ed25519Error", bufs) /\ UNCHANGED <<keypair, spos>>
              ELSE /\ Goto("comment")
                   /\ bufs' = bufs
                   /\ keypair' = [type |-> "ED25519", variant |-> "none", comment |-> <<>>]
                   /\ spos' = f.pos
    /\ UNCHANGED <<input, header, cipher, keyder, decrypted, keyname, calls, arms>>

\* *keypair.comment_mut() = secret_reader.read_utf8()?
ReadComment ==
    /\ pc = "comment"
    /\ LET c == read_utf8(decrypted, spos)
       IN  /\ reads' = reads \o Reads(<<"comment">>)
           /\ IF ~c.ok THEN Return(WireError, bufs) /\ UNCHANGED <<keypair, spos>>
              ELSE /\ Goto("padding")
                   /\ bufs' = bufs
                   /\ keypair' = [keypair EXCEPT !.comment = c.val]
                   /\ spos' = c.pos
    /\ UNCHANGED <<input, header, cipher, keyder, decrypted, keyname, calls, arms>>

\* ((i + 1) & 0xff) as u8, for the index i (from 0) of a padding byte.
PadByte(i) == (i + 1) % 256

RECURSIVE PaddingFrom(_, _)
\* for (i, pad) in secret_reader.bytes().enumerate(), from index i on:
\* FALSE at the first byte that is not PadByte(i).
PaddingFrom(rem, i) ==
    IF i >= Len(rem) THEN TRUE
    ELSE IF PadByte(i) # rem[i + 1] THEN FALSE
    ELSE PaddingFrom(rem, i + 1)

\* What secret_reader has not consumed.
Remaining == SubSeq(decrypted, spos + 1, Len(decrypted))

\* A padding check that looks at the first byte only.
PaddingOk_FirstByteOnly(rem) == rem = <<>> \/ rem[1] = PadByte(0)

\* The padding loop over all that remains.
PaddingOk(rem) == PaddingFrom(rem, 0)

\* Check padding, then Ok(keypair).
CheckPadding ==
    /\ pc = "padding"
    /\ IF PaddingOk(Remaining)
       THEN Return(Ok, bufs)
       ELSE Return("InvalidKeyFormat", bufs)
    /\ UNCHANGED <<input, header, cipher, keyder, decrypted, spos, keyname, keypair,
                   reads, calls, arms>>

Next ==
    \/ CheckMagic
    \/ ReadHeader
    \/ SelectCipher
    \/ CheckPassphrase
    \/ CheckKdf
    \/ CheckLength
    \/ DeriveKey
    \/ DecryptData
    \/ CopyPlain
    \/ Checksum
    \/ ReadKeyName
    \/ DecodeRsa
    \/ DecodeDsa
    \/ DecodeEcdsa
    \/ DecodeEd25519
    \/ ReadComment
    \/ CheckPadding

Spec == Init /\ [][Next]_vars

(***************************************************************************)
(* Properties                                                              *)
(***************************************************************************)

\* The outer framing of the file is intact: the magic, one key, every
\* string of the header complete.
Framed(g) == g.magic = "ok" /\ g.nkeys = 1 /\ ~g.hcut

\* decrypt_ossh_priv has returned Ok: the inner plaintext exists.
Decrypted == pc \notin {"start", "header", "cipher", "passphrase", "kdf", "length",
                        "derive", "decrypt", "copy"}
             /\ exit \notin {"start", "header", "cipher", "passphrase", "kdf", "length",
                             "derive", "decrypt", "copy"}

\* C1: for a file whose cipher name is a supported cipher other than
\* "none", decoded with no passphrase or with the empty passphrase, the
\* kdf blob is never parsed and neither bcrypt_pbkdf nor the cipher is ever
\* called, and the decode ends with IncorrectPass, whatever the kdf name,
\* the kdf blob and the length of the ciphertext.
C1_NoPassphraseNothingAttempted ==
    (/\ Framed(gen)
     /\ gen.cipher \in CipherNames \ {NAME_NONE}
     /\ gen.pass \in {NoPass, SomePass(<<>>)})
    => /\ calls = <<>>
       /\ keyder = <<>>
       /\ decrypted = <<>>
       /\ pc = "done" => result = "IncorrectPass"

\* C1's case: an empty passphrase, an unknown kdf name and no ciphertext
\* at all, and the answer is still IncorrectPass.
C1_Witness ==
    /\ pc = "done"
    /\ Framed(gen)
    /\ gen.cipher = CIPHER_AES256_CTR
    /\ gen.pass = SomePass(<<>>)
    /\ gen.kdfname = OTHER_KDF
    /\ gen.empty
    /\ result = "IncorrectPass"

\* The two leading uint32 words of the inner plaintext.
Word0 == SubSeq(decrypted, 1, 4)

Word1 == SubSeq(decrypted, 5, 8)

\* C2: once the inner plaintext exists, if its two leading words differ
\* the decode ends with IncorrectPass and has read nothing but the two
\* words; so a decode that reads further, or returns Ok, has equal words.
C2_ChecksumGate ==
    /\ (Decrypted /\ Len(decrypted) >= 8 /\ Word0 # Word1)
         => /\ Len(reads) <= 2
            /\ pc = "done" => result = "IncorrectPass" /\ Len(reads) = 2
    /\ result = Ok => Len(decrypted) >= 8 /\ Word0 = Word1

\* C2's case: an encrypted file whose check words differ, refused with
\* IncorrectPass after the two reads.
C2_Witness ==
    /\ pc = "done"
    /\ cipher.some
    /\ Decrypted
    /\ Word0 # Word1
    /\ result = "IncorrectPass"
    /\ Len(reads) = 2

\* The padding rule: byte i of the padding, counted from 0, is (i+1) & 0xff.
PaddingRule(rem) == \A j \in 1..Len(rem) : rem[j] = j % 256

\* C3: Ok is returned only when every byte left after the comment follows
\* the padding rule, and a decode that reaches the padding check with a
\* byte that breaks the rule ends with InvalidKeyFormat, with or without a
\* cipher and for any number of bytes.
C3_PaddingInvariant ==
    /\ result = Ok => exit = "padding" /\ PaddingRule(Remaining)
    /\ (pc = "done" /\ exit = "padding" /\ ~PaddingRule(Remaining))
         => result = "InvalidKeyFormat"

\* C3's case: an encrypted file with more than 255 bytes of padding is
\* decoded.
C3_Witness ==
    /\ result = Ok
    /\ cipher.some
    /\ Len(Remaining) > 255

\* C4: when the decode has returned, with Ok or with any error, each of
\* the inner plaintext, the derived key and iv, the RSA iqmp and the ECDSA
\* private scalar that held secret bytes was zeroed before it was dropped.
C4_ZeroedOnEveryExit ==
    pc = "done" => \A x \in Buffers : bufs[x] \in {"unalloc", "wiped"}

\* The curve name that an ECDSA key name ends with, after "ecdsa-sha2-".
ImpliedCurveName(name) == SubSeq(name, 12, Len(name))

\* An unencrypted file with nothing wrong in it.
WellFormedPlain(g) ==
    /\ Framed(g)
    /\ g.cipher = NAME_NONE
    /\ g.kdfname = NAME_NONE
    /\ ~g.empty
    /\ g.extra % 8 = 0
    /\ g.check = "eq"
    /\ g.keyname \in KeyNames
    /\ g.keyname \in EcdsaNames => g.curve = ImpliedCurveName(g.keyname)
    /\ g.cut = NFields(g.keyname)
    /\ g.valid
    /\ g.comment.kind # "bad"
    /\ g.paderr = "none"

\* C5: a well-formed unencrypted file is decoded, with no passphrase or
\* with any, and the key pair carries the comment of the inner plaintext.
C5_PlainFileDecodes ==
    WellFormedPlain(gen)
    => /\ result \in {Pending, Ok}
       /\ pc = "done" => result = Ok /\ keypair.comment = CommentOf(gen)

\* C5's case: an unencrypted RSA key with a comment of two bytes, decoded
\* although a passphrase was supplied.
C5_Witness ==
    /\ WellFormedPlain(gen)
    /\ gen.pass = SomePass(WRONG_PASS)
    /\ gen.keyname = RSA_NAME
    /\ result = Ok
    /\ Len(keypair.comment) = 2

\* The block size the cipher table gives each cipher name.
TableBlockSize(name) == IF name \in {NAME_NONE, CIPHER_3DES_CBC} THEN 8 ELSE 16

\* C6: for every cipher name of the table, a file whose ciphertext is
\* empty or not a multiple of the block size of its cipher is refused with
\* InvalidKeyFormat.  Stated for the files that get as far as the length
\* check: decoded with a non-empty passphrase (or without a cipher) and
\* with a kdf name the decoder knows.
C6_BadLengthRefused ==
    (/\ pc = "done"
     /\ Framed(gen)
     /\ gen.cipher \in CipherNames
     /\ gen.cipher = NAME_NONE \/ (gen.pass.some /\ gen.pass.val # <<>>)
     /\ gen.kdfname \in {NAME_NONE, KDF_BCRYPT}
     /\ \/ Len(Ciphertext(gen)) = 0
        \/ Len(Ciphertext(gen)) % TableBlockSize(gen.cipher) # 0)
    => result = "InvalidKeyFormat"

\* The curve name string of the inner plaintext, which follows the two
\* check words and the key name.
CurveString == read_utf8(decrypted, 12 + Len(keyname))

\* An ECDSA key whose curve name string is not the one its key name implies.
CurveDisagrees ==
    /\ keyname \in EcdsaNames
    /\ CurveString.ok
    /\ CurveString.val # ImpliedCurveName(keyname)

\* The field of the last read of the inner plaintext.
LastRead == reads[Len(reads)][1]

\* C7 as claimed: when the curve name string is not the curve the key name
\* implies, the decode ends with TypeNotMatch, whatever the string, before
\* the public point or the private scalar is read.
C7_AnyOtherCurveIsTypeNotMatch ==
    CurveDisagrees
    => \/ pc = "ecdsa"
       \/ /\ pc = "done" /\ exit = "ecdsa" /\ LastRead = "curvename"
          /\ result = "TypeNotMatch"

\* C7: when the curve name string is not the curve the key name implies,
\* the decode ends before the public point or the private scalar is read:
\* with TypeNotMatch when the string names another supported curve, with
\* UnsupportCurve when it names none.
C7_CurveMustAgree ==
    CurveDisagrees
    => \/ pc = "ecdsa"
       \/ /\ pc = "done" /\ exit = "ecdsa" /\ LastRead = "curvename"
          /\ result = IF CurveString.val \in CurveNames THEN "TypeNotMatch"
                      ELSE "UnsupportCurve"

\* C7's case: nistp384 inside an ecdsa-sha2-nistp256 key, refused.
C7_Witness ==
    /\ pc = "done"
    /\ CurveDisagrees
    /\ keyname = NIST_P256_NAME
    /\ CurveString.val = CURVE_NISTP384
    /\ result = "TypeNotMatch"

\* C8 as claimed: every read of the inner plaintext, the comment's
\* included, is a zeroizing read.
C8_EveryReadZeroizes == \A i \in 1..Len(reads) : reads[i][2] = "zeroize"

\* C8: every read of the inner plaintext is a zeroizing read, but the read
\* of the comment, which is a normal one.
C8_EveryReadButCommentZeroizes ==
    \A i \in 1..Len(reads) : reads[i][2] = "zeroize" <=> reads[i][1] # "comment"

\* C8's case: a key decoded to the end, every field read.
C8_Witness ==
    /\ result = Ok
    /\ keypair.type = "ECDSA"
    /\ LastRead = "comment"

\* The file names no cipher and the bcrypt kdf.
NoneWithBcrypt == Framed(gen) /\ gen.cipher = NAME_NONE /\ gen.kdfname = KDF_BCRYPT

\* C9 as claimed: with cipher "none" and kdf "bcrypt" the kdf blob is
\* parsed and bcrypt_pbkdf is run before the ciphertext is returned
\* unchanged as the plaintext.
C9_BcryptRunsWithoutCipher ==
    (NoneWithBcrypt /\ Decrypted)
    => calls = <<"kdf_blob", "bcrypt_pbkdf">> /\ decrypted = encrypted

\* C9: with cipher "none" and kdf "bcrypt" the decoder does not refuse the
\* combination, and it neither parses the kdf blob nor runs bcrypt_pbkdf:
\* a ciphertext whose length is a positive multiple of 8 is returned
\* unchanged as the plaintext.
C9_NoCipherNoDerivation ==
    NoneWithBcrypt
    => /\ calls = <<>>
       /\ keyder = <<>>
       /\ exit \notin {"cipher", "passphrase", "kdf", "derive", "decrypt"}
       /\ (pc = "done" /\ Len(Ciphertext(gen)) > 0 /\ Len(Ciphertext(gen)) % 8 = 0)
            => Decrypted /\ decrypted = encrypted

\* C9's case: such a file, with a damaged kdf blob at that, is decoded.
C9_Witness ==
    /\ NoneWithBcrypt
    /\ gen.blob = "nosalt"
    /\ Decrypted
    /\ decrypted = encrypted
    /\ result = Ok

\* C10: decrypt_ossh_priv never returns Unknown and never enters the `_`
\* arm of the kdf match, and the unreachable!() of the RSA arm is never run.
C10_DefensiveArmsDead ==
    /\ arms = {}
    /\ result \notin {"Unknown", "panic"}

\* C10's case: an encrypted RSA key decoded: the bcrypt arm was entered
\* and the RSA signature match was run.
C10_Witness ==
    /\ result = Ok
    /\ keypair.type = "RSA"
    /\ keypair.variant = "SHA2_512"
    /\ \E i \in 1..Len(calls) : calls[i] = "bcrypt_pbkdf"

====
